---------------------------- MODULE Spec2Model ----------------------------
(***************************************************************************)
(* Tomasulo scheduling engine (tomasulo.py), its instruction decoder       *)
(* (instruction.py) and reservation stations (reservation_station.py).     *)
(*                                                                         *)
(* One engine run: the constructor decodes the program text and builds the *)
(* station bank; run() then repeats next_cycle (Issue, Execute,            *)
(* Write-Back, cycle += 1) until pc >= len(program) and no station is busy.*)
(* The three stages are the steps of the model; `stage` is the position of *)
(* the driver inside run()/next_cycle().                                   *)
(***************************************************************************)
EXTENDS Integers, Sequences, FiniteSets, TLC

(***************************************************************************)
(* Bounds of the model.                                                    *)
(***************************************************************************)
\* run() is cut off once the cycle counter exceeds MaxCycle (a looping
\* program never terminates).
MaxCycle == 40
\* Length of the generated programs.
MaxProgLen == 3

(***************************************************************************)
(* Program constants.                                                      *)
(***************************************************************************)
NUM_REGISTERS == 8
NUM_RES_STATIONS_Types == 7
MEMORY_SIZE == 65536

\* InstructionCategory
LOAD == 0
STORE == 1
BEQ == 2
JUMP == 3
ADDITION == 4
MUL == 5
NOR == 6

\* ResStationOp; NoOp is Python's None
CALL == 0
RET == 1
ADD == 2
ADDI == 3
NoOp == -1

\* write(): "no station selected" and the initial minimum
NO_STATION == -1
INT_MAX == 2147483647
\* exec_result: 0xFFFF
MASK16 == 65535

Regs == 0 .. (NUM_REGISTERS - 1)
Cats == 0 .. (NUM_RES_STATIONS_Types - 1)

(***************************************************************************)
(* Python list indexing: a negative index counts from the end, an index    *)
(* outside [-n, n) raises IndexError.                                      *)
(***************************************************************************)
InRange(i, n) == i >= -n /\ i < n
PyIdx(i, n) == IF i < 0 THEN i + n ELSE i

(***************************************************************************)
(* Instruction text.  A line is its mnemonic and its operand fields in     *)
(* textual order: x, y, z.                                                 *)
(*   LOAD  Rx, y(Rz)     STORE Rx, y(Rz)     BEQ Rx, Ry, z                 *)
(*   CALL  x             RET                                               *)
(*   ADD Rx, Ry, Rz      ADDI Rx, Ry, z      MUL Rx, Ry, Rz   NOR Rx,Ry,Rz *)
(***************************************************************************)
Line(mn, x, y, z) == [mn |-> mn, x |-> x, y |-> y, z |-> z]

\* Instruction.__init__: the fields before parse_instruction fills them.
Instruction(index) ==
    [index |-> index, category |-> NoOp, op |-> NoOp,
     issue |-> 0, exec_start |-> 0, exec_end |-> 0, write_back |-> 0,
     rd |-> 0, rs |-> 0, rt |-> 0, imm |-> 0]

\* The immediate checks of parse_instruction: exit(1) when out of range.
\* a decoder that checks no immediate
ImmOk_Unchecked(l) == TRUE

ImmOk(l) ==
    CASE l.mn \in {"load", "store"} -> l.y >= -16 /\ l.y <= 15
      [] l.mn \in {"beq", "addi"}   -> l.z >= -16 /\ l.z <= 15
      [] l.mn = "call"              -> l.x >= -64 /\ l.x <= 63
      [] OTHER                      -> TRUE

\* Instruction.parse_instruction, for a line whose immediate is accepted.
parse_instruction(l, index) ==
    LET i == Instruction(index) IN
    CASE l.mn = "load"  -> [i EXCEPT !.category = LOAD, !.rd = l.x, !.rs = l.z, !.imm = l.y]
      [] l.mn = "store" -> [i EXCEPT !.category = STORE, !.rt = l.x, !.imm = l.y, !.rs = l.z]
      [] l.mn = "beq"   -> [i EXCEPT !.category = BEQ, !.rs = l.x, !.rt = l.y, !.imm = l.z]
      [] l.mn = "call"  -> [i EXCEPT !.category = JUMP, !.op = CALL, !.rd = 1, !.imm = l.x]
      [] l.mn = "ret"   -> [i EXCEPT !.category = JUMP, !.op = RET, !.rs = 1]
      [] l.mn = "add"   -> [i EXCEPT !.category = ADDITION, !.op = ADD,
                                     !.rd = l.x, !.rs = l.y, !.rt = l.z]
      [] l.mn = "addi"  -> [i EXCEPT !.category = ADDITION, !.op = ADDI,
                                     !.rd = l.x, !.rs = l.y, !.imm = l.z]
      [] l.mn = "mul"   -> [i EXCEPT !.category = MUL, !.rd = l.x, !.rs = l.y, !.rt = l.z]
      [] l.mn = "nor"   -> [i EXCEPT !.category = NOR, !.rd = l.x, !.rs = l.y, !.rt = l.z]

\* Tomasulo._read_instructions: the program is a 0-indexed list.
read_instructions(text) ==
    [k \in 0 .. (Len(text) - 1) |-> parse_instruction(text[k + 1], k)]

(***************************************************************************)
(* Reservation stations.  A hardware configuration is seven rows           *)
(* <<num_stations, cycles_for_exec, cycles_for_addr>> in category order.   *)
(***************************************************************************)
ReservationStation(id, cycles_for_exec, cycles_for_addr) ==
    [id |-> id, busy |-> FALSE, op |-> NoOp, vj |-> 0, vk |-> 0, qj |-> 0, qk |-> 0,
     a |-> 0, cycles_for_exec |-> cycles_for_exec, cycles_for_addr |-> cycles_for_addr,
     rem_cycles_exec |-> -1, rem_cycles_addr |-> -1, inst_index |-> -1, result |-> -1]

default_hardware ==
    << <<2, 2, 4>>, <<2, 2, 4>>, <<2, 1, 0>>, <<1, 1, 0>>, <<4, 2, 0>>, <<2, 10, 0>>, <<2, 1, 0>> >>

RECURSIVE StationsBefore(_, _)
StationsBefore(hw, c) == IF c = 0 THEN 0 ELSE hw[c][1] + StationsBefore(hw, c - 1)

\* Tomasulo._initialize_hardware: ids count up from 1 through the categories.
initialize_hardware(hw) ==
    [c \in Cats |->
        [j \in 1 .. hw[c + 1][1] |->
            ReservationStation(StationsBefore(hw, c) + j, hw[c + 1][2], hw[c + 1][3])]]

(***************************************************************************)
(* The engine state is handled as one record s (the fields of Tomasulo     *)
(* plus `error`, the exception that ended the run, "" when none).          *)
(***************************************************************************)
\* SystemStatus.__init__: the snapshot copies the rename table.
SystemStatus(issue_cycle, register_status) ==
    [issue |-> issue_cycle, register_status |-> register_status]

ProgLen(s) == Cardinality(DOMAIN s.program)
\* self.program[i] as Python indexes it
Prog(s, i) == s.program[PyIdx(i, ProgLen(s))]
ProgIdx(s, i) == PyIdx(i, ProgLen(s))

\* self.memory[a]: the memory holds MEMORY_SIZE words, all 0 unless written.
MemOk(a) == InRange(a, MEMORY_SIZE)
MemRead(memory, a) ==
    IF PyIdx(a, MEMORY_SIZE) \in DOMAIN memory THEN memory[PyIdx(a, MEMORY_SIZE)] ELSE 0
MemWrite(memory, a, v) ==
    [x \in DOMAIN memory \cup {PyIdx(a, MEMORY_SIZE)} |->
        IF x = PyIdx(a, MEMORY_SIZE) THEN v ELSE memory[x]]

\* The stations of categories lo..hi in the order the loops of the engine
\* visit them: `for i in range(lo, hi + 1): for s in reservation_stations[i]`.
RECURSIVE Positions(_, _, _)
Positions(rs, lo, hi) ==
    IF lo > hi THEN << >>
    ELSE [j \in 1 .. Len(rs[lo]) |-> <<lo, j>>] \o Positions(rs, lo + 1, hi)

St(s, pos) == s.reservation_stations[pos[1]][pos[2]]

\* self.station_id_to_index[id]
station_id_to_index(s, id) ==
    LET ps == Positions(s.reservation_stations, 0, NUM_RES_STATIONS_Types - 1)
    IN  ps[CHOOSE k \in 1 .. Len(ps) : St(s, ps[k]).id = id]

(***************************************************************************)
(* Tomasulo.issue                                                          *)
(***************************************************************************)
\* the first station of the category that is not busy, 0 when all are busy
FirstFree(bank) ==
    IF \E j \in 1 .. Len(bank) : ~bank[j].busy
    THEN CHOOSE j \in 1 .. Len(bank) : ~bank[j].busy /\ \A k \in 1 .. (j - 1) : bank[k].busy
    ELSE 0

\* a rename that does not except register 0
IssueRename_AnyRegister(s, rd, id) ==
    IF s.system_status_queue = << >>
    THEN [s EXCEPT !.register_status[rd] = id]
    ELSE [s EXCEPT !.system_status_queue[Len(s.system_status_queue)].register_status[rd] = id]

\* a rename that always goes into the live table
IssueRename_LiveTable(s, rd, id) ==
    IF rd = 0 THEN s ELSE [s EXCEPT !.register_status[rd] = id]

\* the rename of the destination register: into the live table, or into the
\* newest snapshot when a branch or jump is in flight
IssueRename(s, rd, id) ==
    IF rd = 0 THEN s
    ELSE IF s.system_status_queue = << >>
         THEN [s EXCEPT !.register_status[rd] = id]
         ELSE [s EXCEPT !.system_status_queue[Len(s.system_status_queue)].register_status[rd] = id]

\* the snapshot pushed for a BEQ or JUMP
IssueSnapshot(s, category) ==
    IF category \in {BEQ, JUMP}
    THEN IF s.system_status_queue = << >>
         THEN [s EXCEPT !.system_status_queue = <<SystemStatus(s.cycle, s.register_status)>>]
         ELSE [s EXCEPT !.system_status_queue =
                  Append(@, SystemStatus(s.cycle, @[Len(@)].register_status))]
    ELSE s

IssueInto(s, j) ==
    LET inst == Prog(s, s.pc)
        c    == inst.category
        old  == s.reservation_stations[c][j]
        qj   == s.register_status[inst.rs]
        qk   == s.register_status[inst.rt]
        new  == [old EXCEPT !.busy = TRUE, !.a = inst.imm, !.op = inst.op,
                            !.rem_cycles_exec = old.cycles_for_exec,
                            !.rem_cycles_addr = old.cycles_for_addr,
                            !.inst_index = s.pc,
                            !.qj = qj,
                            !.vj = IF qj # 0 THEN old.vj ELSE s.registers[inst.rs],
                            !.qk = qk,
                            !.vk = IF qk # 0 THEN old.vk ELSE s.registers[inst.rt]]
        s1   == [s EXCEPT !.program[ProgIdx(s, s.pc)].issue = s.cycle,
                          !.reservation_stations[c][j] = new]
        s2   == IssueRename(s1, inst.rd, old.id)
        s3   == IF c \in {LOAD, STORE}
                THEN [s2 EXCEPT !.load_store_queue = Append(@, s.pc)]
                ELSE s2
        s4   == IssueSnapshot(s3, c)
    IN  [s4 EXCEPT !.pc = s.pc + 1]

\* an issue stage that drops the instruction it finds no free station for
issue_SkipsWhenFull(s) ==
    IF ~InRange(s.pc, ProgLen(s))
    THEN [s EXCEPT !.error = "IndexError: program[pc]"]
    ELSE LET j == FirstFree(s.reservation_stations[Prog(s, s.pc).category])
         IN  IF j = 0 THEN [s EXCEPT !.pc = @ + 1] ELSE IssueInto(s, j)

issue(s) ==
    IF ~InRange(s.pc, ProgLen(s))
    THEN [s EXCEPT !.error = "IndexError: program[pc]"]
    ELSE LET j == FirstFree(s.reservation_stations[Prog(s, s.pc).category])
         IN  IF j = 0 THEN s ELSE IssueInto(s, j)

(***************************************************************************)
(* Python's integer operators: integers are unbounded, `|` and `~` act on  *)
(* the two's complement of any length, `& 0xFFFF` keeps the low 16 bits.   *)
(***************************************************************************)
RECURSIVE BitOr(_, _)
BitOr(x, y) ==
    IF x = 0 THEN y
    ELSE IF y = 0 THEN x
    ELSE IF x = -1 \/ y = -1 THEN -1
    ELSE 2 * BitOr(x \div 2, y \div 2) + (IF x % 2 = 1 \/ y % 2 = 1 THEN 1 ELSE 0)
BitNot(x) == -x - 1
BitAnd16(x) == x % (MASK16 + 1)
\* the product without the mask
MulAnd16_Unmasked(x, y) == x * y

\* (x * y) & 0xFFFF, computed on the low bytes so that no product exceeds 2^31
MulAnd16(x, y) ==
    LET x16 == BitAnd16(x)
        y16 == BitAnd16(y)
        lo  == (x16 % 256) * y16
        hi  == (((x16 \div 256) * y16) % 256) * 256
    IN  BitAnd16(lo + hi)

(***************************************************************************)
(* Tomasulo.exec_result                                                    *)
(***************************************************************************)
\* a CALL whose return address is its own index
exec_result_CallReturnsToItself(category, station) ==
    CASE category = BEQ      -> IF station.vj = station.vk THEN 1 ELSE 0
      [] category = JUMP     -> IF station.op = CALL THEN station.inst_index
                                ELSE station.vj
      [] category = ADDITION -> IF station.op = ADD THEN station.vj + station.vk
                                ELSE station.vj + station.a
      [] category = MUL      -> MulAnd16(station.vj, station.vk)
      [] category = NOR      -> BitNot(BitOr(station.vj, station.vk))
      [] OTHER               -> station.result

\* ADDI adding its second register operand instead of its immediate
exec_result_AddiUsesVk(category, station) ==
    CASE category = BEQ      -> IF station.vj = station.vk THEN 1 ELSE 0
      [] category = JUMP     -> IF station.op = CALL THEN station.inst_index + 1
                                ELSE station.vj
      [] category = ADDITION -> station.vj + station.vk
      [] category = MUL      -> MulAnd16(station.vj, station.vk)
      [] category = NOR      -> BitNot(BitOr(station.vj, station.vk))
      [] OTHER               -> station.result

exec_result(category, station) ==
    CASE category = BEQ      -> IF station.vj = station.vk THEN 1 ELSE 0
      [] category = JUMP     -> IF station.op = CALL THEN station.inst_index + 1
                                ELSE station.vj
      [] category = ADDITION -> IF station.op = ADD THEN station.vj + station.vk
                                ELSE station.vj + station.a
      [] category = MUL      -> MulAnd16(station.vj, station.vk)
      [] category = NOR      -> BitNot(BitOr(station.vj, station.vk))
      [] OTHER               -> station.result

(***************************************************************************)
(* Tomasulo.execute                                                        *)
(***************************************************************************)
\* the gate compared with the youngest snapshot instead of the oldest
SpeculationGate_Youngest(s, st) ==
    /\ s.system_status_queue # << >>
    /\ Prog(s, st.inst_index).issue
           > s.system_status_queue[Len(s.system_status_queue)].issue

\* "Skip if instruction is after a BEQ until it writes back"
SpeculationGate(s, st) ==
    /\ s.system_status_queue # << >>
    /\ Prog(s, st.inst_index).issue > s.system_status_queue[1].issue

\* an arithmetic station allowed to execute in the cycle of its issue
ExecuteArith_InIssueCycle(s, pos) ==
    LET st   == St(s, pos)
        inst == Prog(s, st.inst_index)
        p    == ProgIdx(s, st.inst_index)
    IN  IF ~st.busy THEN s
        ELSE IF SpeculationGate(s, st) THEN s
        ELSE IF ~(st.qj = 0 /\ st.qk = 0 /\ inst.issue <= s.cycle /\ st.rem_cycles_exec # 0)
        THEN s
        ELSE
          LET rem  == st.rem_cycles_exec - 1
              s1   == IF st.rem_cycles_exec = st.cycles_for_exec /\ ~(inst.exec_start > 0)
                      THEN [s EXCEPT !.program[p].exec_start = s.cycle]
                      ELSE s
              s2   == [s1 EXCEPT !.reservation_stations[pos[1]][pos[2]].rem_cycles_exec = rem]
          IN  IF rem = 0
              THEN [s2 EXCEPT !.reservation_stations[pos[1]][pos[2]].result =
                                   exec_result(inst.category, St(s2, pos)),
                              !.program[p].exec_end = s.cycle]
              ELSE s2

\* the body of the loop over the stations of categories 2..6
ExecuteArith(s, pos) ==
    LET st   == St(s, pos)
        inst == Prog(s, st.inst_index)
        p    == ProgIdx(s, st.inst_index)
    IN  IF ~(st.busy /\ inst.issue < s.cycle) THEN s
        ELSE IF SpeculationGate(s, st) THEN s
        ELSE IF ~(st.qj = 0 /\ st.qk = 0 /\ inst.issue <= s.cycle /\ st.rem_cycles_exec # 0)
        THEN s
        ELSE
          LET rem  == st.rem_cycles_exec - 1
              s1   == IF st.rem_cycles_exec = st.cycles_for_exec /\ ~(inst.exec_start > 0)
                      THEN [s EXCEPT !.program[p].exec_start = s.cycle]
                      ELSE s
              s2   == [s1 EXCEPT !.reservation_stations[pos[1]][pos[2]].rem_cycles_exec = rem]
          IN  IF rem = 0
              THEN [s2 EXCEPT !.reservation_stations[pos[1]][pos[2]].result =
                                   exec_result(inst.category, St(s2, pos)),
                              !.program[p].exec_end = s.cycle]
              ELSE s2

\* address calculation of a LOAD/STORE station (rem_cycles_addr != 0)
ExecuteAddr(s, pos) ==
    LET st   == St(s, pos)
        p    == ProgIdx(s, st.inst_index)
    IN  IF st.qj # 0 THEN s
        ELSE IF s.load_store_queue = << >>
        THEN [s EXCEPT !.error = "IndexError: load_store_queue[0]"]
        ELSE IF s.load_store_queue[1] # st.inst_index THEN s
        ELSE
          LET rem == st.rem_cycles_addr - 1
              s1  == IF st.rem_cycles_addr = st.cycles_for_addr
                     THEN [s EXCEPT !.program[p].exec_start = s.cycle]
                     ELSE s
              s2  == [s1 EXCEPT !.reservation_stations[pos[1]][pos[2]].rem_cycles_addr = rem]
              ea  == st.vj + st.a
          IN  IF rem # 0 THEN s2
              ELSE IF ~MemOk(ea)
              THEN [s2 EXCEPT !.reservation_stations[pos[1]][pos[2]].a = ea,
                              !.error = "IndexError: memory[a]"]
              ELSE [s2 EXCEPT !.reservation_stations[pos[1]][pos[2]].a = ea,
                              !.reservation_stations[pos[1]][pos[2]].result =
                                   MemRead(s.memory, ea),
                              !.queue_pop = TRUE]

\* an older, busy, unfinished station of the bank with the same address
Hazard(s, bank, st) ==
    \E k \in 1 .. Len(bank) :
        /\ bank[k].busy
        /\ bank[k].rem_cycles_exec # 0
        /\ Prog(s, bank[k].inst_index).issue < Prog(s, st.inst_index).issue
        /\ bank[k].a = st.a

\* execution of a LOAD/STORE station (rem_cycles_addr == 0, rem_cycles_exec != 0)
ExecuteMem(s, pos) ==
    LET st   == St(s, pos)
        p    == ProgIdx(s, st.inst_index)
        WAW  == Hazard(s, s.reservation_stations[STORE], st)
        WAR  == pos[1] = STORE /\ Hazard(s, s.reservation_stations[LOAD], st)
        rem  == IF WAW \/ WAR THEN st.rem_cycles_exec ELSE st.rem_cycles_exec - 1
        s1   == [s EXCEPT !.reservation_stations[pos[1]][pos[2]].rem_cycles_exec = rem]
    IN  IF rem # 0 THEN s1
        ELSE IF pos[1] # LOAD THEN [s1 EXCEPT !.program[p].exec_end = s.cycle]
        ELSE IF ~MemOk(st.a)
        THEN [s1 EXCEPT !.program[p].exec_end = s.cycle, !.error = "IndexError: memory[a]"]
        ELSE [s1 EXCEPT !.program[p].exec_end = s.cycle,
                        !.reservation_stations[pos[1]][pos[2]].result = MemRead(s.memory, st.a)]

\* the body of the loop over the stations of categories 0..1
ExecuteLoadStore(s, pos) ==
    LET st == St(s, pos)
    IN  IF ~(st.busy /\ Prog(s, st.inst_index).issue < s.cycle) THEN s
        ELSE IF SpeculationGate(s, st) THEN s
        ELSE IF st.rem_cycles_addr # 0 THEN ExecuteAddr(s, pos)
        ELSE IF st.rem_cycles_exec # 0 THEN ExecuteMem(s, pos)
        ELSE s

\* the loops over stations: the body applied to each position in turn; an
\* exception ends the loop where it is raised
RECURSIVE ExecuteArithAll(_, _, _)
ExecuteArithAll(s, ps, k) ==
    IF k > Len(ps) \/ s.error # "" THEN s
    ELSE ExecuteArithAll(ExecuteArith(s, ps[k]), ps, k + 1)

RECURSIVE ExecuteLoadStoreAll(_, _, _)
ExecuteLoadStoreAll(s, ps, k) ==
    IF k > Len(ps) \/ s.error # "" THEN s
    ELSE ExecuteLoadStoreAll(ExecuteLoadStore(s, ps[k]), ps, k + 1)

Without(s) == [f \in DOMAIN s \ {"queue_pop"} |-> s[f]]
With(s, b) == [f \in DOMAIN s \cup {"queue_pop"} |-> IF f = "queue_pop" THEN b ELSE s[f]]

execute(s) ==
    LET a == ExecuteArithAll(s, Positions(s.reservation_stations, BEQ, NUM_RES_STATIONS_Types - 1), 1)
        b == ExecuteLoadStoreAll(With(a, FALSE),
                     Positions(s.reservation_stations, LOAD, STORE), 1)
    IN  IF b.error = "" /\ b.queue_pop
        THEN [Without(b) EXCEPT !.load_store_queue = Tail(@)]
        ELSE Without(b)

(***************************************************************************)
(* Tomasulo._flush_instructions_after_jump                                 *)
(***************************************************************************)
\* a flush whose comparison is turned round: it drops the older stations
FlushStation_Older(s, pos, w_issue) ==
    LET st == St(s, pos)
    IN  IF st.busy /\ Prog(s, st.inst_index).issue < w_issue
        THEN [s EXCEPT !.reservation_stations[pos[1]][pos[2]].busy = FALSE,
                       !.register_status =
                            [j \in Regs |-> IF @[j] = st.id THEN 0 ELSE @[j]]]
        ELSE s

FlushStation(s, pos, w_issue) ==
    LET st == St(s, pos)
    IN  IF st.busy /\ Prog(s, st.inst_index).issue > w_issue
        THEN [s EXCEPT !.reservation_stations[pos[1]][pos[2]].busy = FALSE,
                       !.register_status =
                            [j \in Regs |-> IF @[j] = st.id THEN 0 ELSE @[j]]]
        ELSE s

RECURSIVE FlushStations(_, _, _, _)
FlushStations(s, ps, k, w_issue) ==
    IF k > Len(ps) THEN s
    ELSE FlushStations(FlushStation(s, ps[k], w_issue), ps, k + 1, w_issue)

\* "while queue and program[queue[0]].issue > program[W].issue: popleft()"
RECURSIVE FlushQueue(_, _, _)
FlushQueue(s, q, w_issue) ==
    IF q # << >> /\ Prog(s, q[1]).issue > w_issue
    THEN FlushQueue(s, Tail(q), w_issue)
    ELSE q

flush_instructions_after_jump(s, write_station) ==
    LET w_issue == Prog(s, write_station.inst_index).issue
        s1 == FlushStations(s, Positions(s.reservation_stations, 0,
                                         NUM_RES_STATIONS_Types - 1), 1, w_issue)
    IN  [s1 EXCEPT !.load_store_queue = FlushQueue(s1, @, w_issue)]

(***************************************************************************)
(* Tomasulo._broadcast_result                                              *)
(***************************************************************************)
BroadcastTo(s, pos, write_station, write_station_id) ==
    LET st == St(s, pos)
        p  == ProgIdx(s, st.inst_index)
        hj == st.qj = write_station_id /\ write_station_id # 0
        s1 == IF hj
              THEN [s EXCEPT !.reservation_stations[pos[1]][pos[2]].qj = 0,
                             !.reservation_stations[pos[1]][pos[2]].vj = write_station.result,
                             !.program[p].exec_start =
                                  IF st.qk = 0 THEN s.cycle ELSE @]
              ELSE s
        st1 == St(s1, pos)
        hk == st1.qk = write_station_id /\ write_station_id # 0
    IN  IF ~st.busy THEN s
        ELSE IF hk
        THEN [s1 EXCEPT !.reservation_stations[pos[1]][pos[2]].qk = 0,
                        !.reservation_stations[pos[1]][pos[2]].vk = write_station.result,
                        !.program[p].exec_start =
                             IF st1.qj = 0 THEN s.cycle ELSE @]
        ELSE s1

RECURSIVE BroadcastAll(_, _, _, _, _)
BroadcastAll(s, ps, k, write_station, write_station_id) ==
    IF k > Len(ps) THEN s
    ELSE BroadcastAll(BroadcastTo(s, ps[k], write_station, write_station_id),
                      ps, k + 1, write_station, write_station_id)

broadcast_result(s, write_station, write_station_id) ==
    BroadcastAll(s, Positions(s.reservation_stations, 0, NUM_RES_STATIONS_Types - 1), 1,
                 write_station, write_station_id)

(***************************************************************************)
(* Tomasulo.write                                                          *)
(***************************************************************************)
\* "Find stations ready to write back": one minimum for both kinds
\* write-back allowed in the cycle execution ends
Eligible_SameCycle(s, pos) ==
    LET st == St(s, pos)
    IN  /\ st.busy
        /\ st.rem_cycles_exec = 0
        /\ Prog(s, st.inst_index).exec_end <= s.cycle
        /\ ~(pos[1] = STORE /\ st.qk # 0)

\* write-back allowed two cycles after execution ends
Eligible_OneCycleLate(s, pos) ==
    LET st == St(s, pos)
    IN  /\ st.busy
        /\ st.rem_cycles_exec = 0
        /\ Prog(s, st.inst_index).exec_end + 1 < s.cycle
        /\ ~(pos[1] = STORE /\ st.qk # 0)

\* a STORE allowed to write back while its value is still pending
Eligible_StoreIgnoresQk(s, pos) ==
    LET st == St(s, pos)
    IN  /\ st.busy
        /\ st.rem_cycles_exec = 0
        /\ Prog(s, st.inst_index).exec_end < s.cycle

Eligible(s, pos) ==
    LET st == St(s, pos)
    IN  /\ st.busy
        /\ st.rem_cycles_exec = 0
        /\ Prog(s, st.inst_index).exec_end < s.cycle
        /\ ~(pos[1] = STORE /\ st.qk # 0)

SelectStep(s, pos, sel) ==
    LET st == St(s, pos)
        t  == Prog(s, st.inst_index).issue
    IN  IF Eligible(s, pos) /\ t < sel.min_issue_time
        THEN IF pos[1] = STORE
             THEN [sel EXCEPT !.min_issue_time = t, !.write_store_station_id = st.id]
             ELSE [sel EXCEPT !.min_issue_time = t, !.write_station_id = st.id]
        ELSE sel

RECURSIVE SelectAll(_, _, _, _)
SelectAll(s, ps, k, sel) ==
    IF k > Len(ps) THEN sel
    ELSE SelectAll(s, ps, k + 1, SelectStep(s, ps[k], sel))

Select(s) ==
    SelectAll(s, Positions(s.reservation_stations, 0, NUM_RES_STATIONS_Types - 1), 1,
              [min_issue_time |-> INT_MAX, write_station_id |-> NO_STATION,
               write_store_station_id |-> NO_STATION])

\* "Handle store instruction write-back"
WriteStore(s, id) ==
    LET pos == station_id_to_index(s, id)
        st  == St(s, pos)
        s1  == [s EXCEPT !.num_written_insts = @ + 1,
                         !.reservation_stations[pos[1]][pos[2]].busy = FALSE,
                         !.program[ProgIdx(s, st.inst_index)].write_back = s.cycle]
    IN  IF ~MemOk(st.a) THEN [s1 EXCEPT !.error = "IndexError: memory[a]"]
        ELSE [s1 EXCEPT !.memory = MemWrite(@, st.a, st.vk)]

\* "Handle jump instructions"
\* a RET that falls through to the next instruction instead of jumping to vj
WriteJump_RetFallsThrough(s, write_station) ==
    LET s1 == IF write_station.op = CALL
              THEN [s EXCEPT !.registers[1] = write_station.a,
                             !.pc = write_station.a
                                    + Prog(s, write_station.inst_index).index + 1]
              ELSE [s EXCEPT !.pc = Prog(s, write_station.inst_index).index + 1]
        s2 == [s1 EXCEPT !.system_status_queue = << >>]
    IN  flush_instructions_after_jump(s2, write_station)

\* a RET that jumps to its (unused) immediate field instead of vj
WriteJump_RetUsesA(s, write_station) ==
    LET s1 == IF write_station.op = CALL
              THEN [s EXCEPT !.registers[1] = write_station.a,
                             !.pc = write_station.a
                                    + Prog(s, write_station.inst_index).index + 1]
              ELSE [s EXCEPT !.pc = write_station.a]
        s2 == [s1 EXCEPT !.system_status_queue = << >>]
    IN  flush_instructions_after_jump(s2, write_station)

WriteJump(s, write_station) ==
    LET s1 == IF write_station.op = CALL
              THEN [s EXCEPT !.registers[1] = write_station.a,
                             !.pc = write_station.a
                                    + Prog(s, write_station.inst_index).index + 1]
              ELSE [s EXCEPT !.pc = write_station.vj]
        s2 == [s1 EXCEPT !.system_status_queue = << >>]
    IN  flush_instructions_after_jump(s2, write_station)

\* a taken BEQ whose target is relative to its own index, not to the next one
WriteBranch_TargetFromOwnIndex(s, write_station) ==
    LET s1 == [s EXCEPT !.num_beq = @ + 1]
    IN  IF write_station.result = 1
        THEN flush_instructions_after_jump(
                 [s1 EXCEPT !.pc = Prog(s, write_station.inst_index).index
                                     + write_station.a,
                            !.num_mispredictions = @ + 1,
                            !.system_status_queue = << >>],
                 write_station)
        ELSE IF s1.system_status_queue = << >>
        THEN [s1 EXCEPT !.error = "IndexError: system_status_queue[0]"]
        ELSE [s1 EXCEPT !.register_status = s1.system_status_queue[1].register_status,
                        !.system_status_queue = Tail(@)]

\* a not-taken BEQ that drops its snapshot and keeps the live rename table
WriteBranch_KeepsRenames(s, write_station) ==
    LET s1 == [s EXCEPT !.num_beq = @ + 1]
    IN  IF write_station.result = 1
        THEN flush_instructions_after_jump(
                 [s1 EXCEPT !.pc = 1 + Prog(s, write_station.inst_index).index
                                     + write_station.a,
                            !.num_mispredictions = @ + 1,
                            !.system_status_queue = << >>],
                 write_station)
        ELSE IF s1.system_status_queue = << >>
        THEN [s1 EXCEPT !.error = "IndexError: system_status_queue[0]"]
        ELSE [s1 EXCEPT !.system_status_queue = Tail(@)]

\* "Handle branch instructions"
WriteBranch(s, write_station) ==
    LET s1 == [s EXCEPT !.num_beq = @ + 1]
    IN  IF write_station.result = 1
        THEN flush_instructions_after_jump(
                 [s1 EXCEPT !.pc = 1 + Prog(s, write_station.inst_index).index
                                     + write_station.a,
                            !.num_mispredictions = @ + 1,
                            !.system_status_queue = << >>],
                 write_station)
        ELSE IF s1.system_status_queue = << >>
        THEN [s1 EXCEPT !.error = "IndexError: system_status_queue[0]"]
        ELSE [s1 EXCEPT !.register_status = s1.system_status_queue[1].register_status,
                        !.system_status_queue = Tail(@)]

\* the register update writing the destination whatever the rename table says
WriteRegisters_IgnoresRename(s, write_station, write_station_id) ==
    LET rd == Prog(s, write_station.inst_index).rd
    IN  [s EXCEPT !.registers =
                      [i \in Regs |-> IF i = rd /\ i # 0 THEN write_station.result ELSE @[i]],
                  !.register_status =
                      [i \in Regs |-> IF @[i] = write_station_id /\ i # 0 THEN 0 ELSE @[i]]]

\* "Update registers" of the retiring station
WriteRegisters(s, write_station, write_station_id) ==
    [s EXCEPT !.registers =
                  [i \in Regs |-> IF s.register_status[i] = write_station_id /\ i # 0
                                  THEN write_station.result ELSE @[i]],
              !.register_status =
                  [i \in Regs |-> IF @[i] = write_station_id /\ i # 0 THEN 0 ELSE @[i]]]

\* "Handle other instruction write-back"
WriteOther(s, id) ==
    LET pos == station_id_to_index(s, id)
        cat == pos[1]
        s1  == [s EXCEPT !.num_written_insts = @ + 1,
                         !.reservation_stations[pos[1]][pos[2]].busy = FALSE,
                         !.program[ProgIdx(s, St(s, pos).inst_index)].write_back = s.cycle]
        write_station == St(s1, pos)
        s2  == IF cat = JUMP THEN WriteJump(s1, write_station)
               ELSE IF cat = BEQ THEN WriteBranch(s1, write_station)
               ELSE s1
    IN  IF s2.error # "" THEN s2
        ELSE IF cat # STORE /\ cat # BEQ
        THEN broadcast_result(WriteRegisters(s2, write_station, id), write_station, id)
        ELSE s2

write(s) ==
    LET sel == Select(s)
        s1  == IF sel.write_store_station_id # NO_STATION
               THEN WriteStore(s, sel.write_store_station_id)
               ELSE s
    IN  IF s1.error # "" THEN s1
        ELSE IF sel.write_station_id # NO_STATION
        THEN WriteOther(s1, sel.write_station_id)
        ELSE s1

(***************************************************************************)
(* The state of a run.  text, hw, initial_PC and initial_memory are the    *)
(* inputs of the run; stage is the position of the driver:                 *)
(*   "exit"    the decoder called exit(1), no engine exists                *)
(*   "issue" / "execute" / "write"   the next stage of next_cycle          *)
(*   "done"    run() left its loop;  "error"   an exception ended the run  *)
(***************************************************************************)
VARIABLES text, hw, initial_PC, initial_memory, stage, error,
          memory, registers, program, reservation_stations, register_status,
          load_store_queue, system_status_queue, pc, cycle,
          num_beq, num_mispredictions, num_written_insts,
          issued_at, squashed, retired

vars == <<text, hw, initial_PC, initial_memory, stage, error,
          memory, registers, program, reservation_stations, register_status,
          load_store_queue, system_status_queue, pc, cycle,
          num_beq, num_mispredictions, num_written_insts,
          issued_at, squashed, retired>>

\* History of the run (not state of the engine).  At most one instruction is
\* issued per cycle, so the cycle of its issue names one issue of one
\* instruction:
\*   issued_at[id]  the cycle in which station id was last claimed by issue()
\*   retired        the issues that were written back
\*   squashed       the issues made after a control instruction that redirected
\*                  the PC (a taken BEQ, a JUMP) and no later than its write-back
hist == <<issued_at, squashed, retired>>
inputs == <<text, hw, initial_PC, initial_memory>>

State ==
    [memory |-> memory, registers |-> registers, program |-> program,
     reservation_stations |-> reservation_stations, register_status |-> register_status,
     load_store_queue |-> load_store_queue, system_status_queue |-> system_status_queue,
     pc |-> pc, cycle |-> cycle, num_beq |-> num_beq,
     num_mispredictions |-> num_mispredictions, num_written_insts |-> num_written_insts,
     error |-> error]

Becomes(s) ==
    /\ memory' = s.memory
    /\ registers' = s.registers
    /\ program' = s.program
    /\ reservation_stations' = s.reservation_stations
    /\ register_status' = s.register_status
    /\ load_store_queue' = s.load_store_queue
    /\ system_status_queue' = s.system_status_queue
    /\ pc' = s.pc
    /\ cycle' = s.cycle
    /\ num_beq' = s.num_beq
    /\ num_mispredictions' = s.num_mispredictions
    /\ num_written_insts' = s.num_written_insts
    /\ error' = s.error

\* Tomasulo.__init__ (and initialize_memory): the engine built from a program
\* text, a hardware configuration, an initial PC and a memory image; the
\* decoder exits on the first line whose immediate is out of range.
Constructed(t, h, ipc, mem) ==
    LET ok == \A k \in 1 .. Len(t) : ImmOk(t[k])
    IN  /\ text = t
        /\ hw = h
        /\ initial_PC = ipc
        /\ initial_memory = mem
        /\ stage = IF ok THEN "issue" ELSE "exit"
        /\ error = ""
        /\ memory = mem
        /\ registers = [i \in Regs |-> i]
        /\ program = IF ok THEN read_instructions(t) ELSE << >>
        /\ reservation_stations = IF ok THEN initialize_hardware(h) ELSE [c \in Cats |-> << >>]
        /\ register_status = [i \in Regs |-> 0]
        /\ load_store_queue = << >>
        /\ system_status_queue = << >>
        /\ pc = ipc
        /\ cycle = 1
        /\ num_beq = 0
        /\ num_mispredictions = 0
        /\ num_written_insts = 0
        /\ issued_at = [id \in 1 .. StationsBefore(h, NUM_RES_STATIONS_Types) |-> 0]
        /\ squashed = {}
        /\ retired = {}

\* run(): "while pc < len(program) or not all_stations_empty"
AllStationsEmpty(s) ==
    \A c \in Cats : \A j \in 1 .. Len(s.reservation_stations[c]) :
        ~s.reservation_stations[c][j].busy

\* a loop test that forgets the busy stations
RunContinues_PcOnly(s) == s.pc < ProgLen(s)

RunContinues(s) == s.pc < ProgLen(s) \/ ~AllStationsEmpty(s)

\* next_cycle(): "if int(self.pc) < len(self.program): self.issue()"
IssueStage(s) == IF s.pc < ProgLen(s) THEN issue(s) ELSE s

\* the station issue() claims in state s, 0 when it claims none
IssuedStation(s) ==
    IF s.pc < ProgLen(s) /\ InRange(s.pc, ProgLen(s))
    THEN LET bank == s.reservation_stations[Prog(s, s.pc).category]
         IN  IF FirstFree(bank) = 0 THEN 0 ELSE bank[FirstFree(bank)].id
    ELSE 0

IssueStep ==
    /\ stage = "issue"
    /\ cycle <= MaxCycle
    /\ LET s == IssueStage(State)
       IN  /\ Becomes(s)
           /\ stage' = IF s.error # "" THEN "error" ELSE "execute"
    /\ issued_at' = IF IssuedStation(State) = 0 THEN issued_at
                    ELSE [issued_at EXCEPT ![IssuedStation(State)] = cycle]
    /\ UNCHANGED <<inputs, squashed, retired>>

ExecuteStep ==
    /\ stage = "execute"
    /\ LET s == execute(State)
       IN  /\ Becomes(s)
           /\ stage' = IF s.error # "" THEN "error" ELSE "write"
    /\ UNCHANGED <<inputs, hist>>

\* write(), then "self.cycle += 1", then the loop test of run()
WriteStage(s) ==
    LET w == write(s)
    IN  IF w.error # "" THEN w ELSE [w EXCEPT !.cycle = @ + 1]

\* the stations write() retires in state s
Retiring(s) == {Select(s).write_station_id, Select(s).write_store_station_id} \ {NO_STATION}

\* the control station that redirects the PC in state s: a JUMP, or a BEQ whose
\* result is "taken"; NO_STATION when there is none
Redirecting(s) ==
    LET id == Select(s).write_station_id
    IN  IF id = NO_STATION THEN NO_STATION
        ELSE LET pos == station_id_to_index(s, id)
             IN  IF pos[1] = JUMP \/ (pos[1] = BEQ /\ St(s, pos).result = 1)
                 THEN id ELSE NO_STATION

WriteStep ==
    /\ stage = "write"
    /\ LET s == WriteStage(State)
       IN  /\ Becomes(s)
           /\ stage' = IF s.error # "" THEN "error"
                       ELSE IF RunContinues(s) THEN "issue" ELSE "done"
    /\ retired' = retired \cup {issued_at[id] : id \in Retiring(State)}
    /\ squashed' = IF Redirecting(State) = NO_STATION THEN squashed
                   ELSE squashed \cup ((issued_at[Redirecting(State)] + 1) .. cycle)
    /\ UNCHANGED <<inputs, issued_at>>

Next == IssueStep \/ ExecuteStep \/ WriteStep

(***************************************************************************)
(* Programs and configurations of the runs that are checked.               *)
(***************************************************************************)
\* S1: a dependency chain
S1 == << Line("addi", 1, 0, 5), Line("addi", 2, 1, 5), Line("addi", 3, 2, 5) >>
\* S2: eight independent ADDI
S2 == [k \in 1 .. 8 |-> Line("addi", k % NUM_REGISTERS, 0, k)]
\* S3: a taken branch over two ADDI
S3 == << Line("addi", 1, 0, 1), Line("beq", 1, 1, 2), Line("addi", 2, 0, 99),
         Line("addi", 3, 0, 77), Line("addi", 4, 0, 5) >>
\* S3 with immediates the decoder accepts
S3InRange == << Line("addi", 1, 0, 1), Line("beq", 1, 1, 2), Line("addi", 2, 0, 9),
                Line("addi", 3, 0, 7), Line("addi", 4, 0, 5) >>

Scenarios == {S1, S2, S3, S3InRange}

\* the programs of 1..n lines over a pool of lines
Programs(pool, n) == UNION {[1 .. k -> pool] : k \in 1 .. n}

\* instructions of every category: a slow producer, memory accesses to one
\* address, taken and not-taken branches, a call and a return
MixedPool ==
    { Line("mul", 1, 2, 2), Line("store", 1, 0, 0),
      Line("load", 2, 0, 0), Line("beq", 0, 0, 1), Line("beq", 1, 0, 1),
      Line("beq", 0, 0, -2), Line("call", 1, 0, 0), Line("ret", 0, 0, 0) }

\* arithmetic only, with dependencies and repeated destinations
ArithPool ==
    { Line("addi", 1, 0, 5), Line("addi", 2, 1, -3), Line("add", 1, 1, 2),
      Line("mul", 2, 1, 2), Line("mul", 1, 2, 2), Line("nor", 1, 2, 0) }

\* one station per category
hw_single ==
    << <<1, 1, 1>>, <<1, 1, 1>>, <<1, 1, 0>>, <<1, 1, 0>>, <<1, 1, 0>>, <<1, 3, 0>>, <<1, 1, 0>> >>
\* two stations per category, the adder slower than the multiplier
hw_double ==
    << <<2, 2, 2>>, <<2, 2, 2>>, <<2, 1, 0>>, <<1, 1, 0>>, <<2, 3, 0>>, <<2, 1, 0>>, <<2, 2, 0>> >>

\* every scenario and every program over MixedPool, on the default hardware
Init ==
    \E t \in Scenarios \cup Programs(MixedPool, MaxProgLen) :
        Constructed(t, default_hardware, 0, << >>)

Spec == Init /\ [][Next]_vars

\* arithmetic programs on two small configurations, from PC 0 and PC 1
InitArith ==
    \E t \in Programs(ArithPool, MaxProgLen), h \in {hw_single, hw_double}, ipc \in {0, 1} :
        Constructed(t, h, ipc, << >>)

\* one more stage of next_cycle(): every step of Next moves stage, and Next can
\* act exactly when RunStep can
RunStep ==
    /\ stage \in {"issue", "execute", "write"}
    /\ stage = "issue" => cycle <= MaxCycle
    /\ stage' \in {"issue", "execute", "write", "done", "error"} \ {stage}

\* run() keeps calling next_cycle until its loop test fails
FairArith == InitArith /\ [][Next]_vars /\ WF_stage(RunStep)

\* loads and stores to one address behind a slow and a fast producer
MemPool ==
    { Line("mul", 1, 2, 2), Line("addi", 2, 0, 7), Line("store", 1, 0, 0),
      Line("store", 2, 0, 0), Line("load", 2, 0, 0), Line("load", 1, 0, 0),
      Line("store", 2, -4, 1) }

\* programs without BEQ/JUMP over MemPool, multiplier slow (default) or fast
InitMem ==
    \E t \in Programs(MemPool, MaxProgLen), h \in {default_hardware, hw_double} :
        Constructed(t, h, 0, << >>)

SpecMem == InitMem /\ [][Next]_vars

\* multiplications whose product reaches and passes 2^16, and a negative operand
MulPool ==
    { Line("mul", 1, 4, 4), Line("mul", 2, 1, 1), Line("mul", 3, 2, 2),
      Line("nor", 5, 0, 0), Line("mul", 6, 5, 7) }

\* S6 with its operands built by multiplication: 4 * 4 = 16, 16 * 16 = 256, 256 * 256
S6 == << Line("mul", 1, 4, 4), Line("mul", 2, 1, 1), Line("mul", 3, 2, 2) >>

InitMul ==
    \E t \in Programs(MulPool, MaxProgLen), h \in {hw_single, hw_double} :
        Constructed(t, h, 0, << >>)

SpecMul == InitMul /\ [][Next]_vars

\* branches forward to the next instruction and backward, around slow
\* instructions
LoopPool ==
    { Line("beq", 0, 0, 0), Line("beq", 0, 0, -2), Line("beq", 0, 0, -3),
      Line("mul", 1, 2, 2), Line("store", 1, 0, 0), Line("addi", 2, 0, 7) }

\* every BEQ and CALL of t has its target inside the program or at its end
TargetsInRange(t) ==
    \A k \in 1 .. Len(t) :
        /\ t[k].mn = "beq"  => (k + t[k].z) \in 0 .. Len(t)
        /\ t[k].mn = "call" => (k + t[k].x) \in 0 .. Len(t)

InitLoop ==
    \E t \in {u \in Programs(LoopPool, MaxProgLen) : TargetsInRange(u)} :
        Constructed(t, default_hardware, 0, << >>)

SpecLoop == InitLoop /\ [][Next]_vars

\* arithmetic behind branches that are never taken (R1 is never 0): a
\* consumer issued behind its producer under the same pending branch, and a
\* branch that waits for the slow multiplier
BranchPool ==
    { Line("beq", 1, 0, 1), Line("addi", 2, 0, 7), Line("add", 3, 2, 2),
      Line("mul", 1, 2, 2) }

InitBranch ==
    \E t \in Programs(BranchPool, MaxProgLen), h \in {default_hardware, hw_single} :
        Constructed(t, h, 0, << >>)

SpecBranch == InitBranch /\ [][Next]_vars

\* loads that execute for two cycles, stores for one, addresses in one cycle,
\* and a multiplier much slower than the memory units
hw_fast_store ==
    << <<2, 2, 1>>, <<2, 1, 1>>, <<2, 1, 0>>, <<1, 1, 0>>, <<2, 1, 0>>, <<2, 8, 0>>, <<2, 1, 0>> >>

\* a load and stores to another and to the same address, a register write, and
\* a store whose value comes from the slow multiplier
WbPool ==
    { Line("load", 2, 0, 0), Line("store", 1, 1, 0), Line("store", 2, 0, 0),
      Line("addi", 2, 0, 7), Line("mul", 1, 2, 2), Line("store", 1, 0, 0) }

InitWb ==
    \E t \in Programs(WbPool, MaxProgLen), h \in {hw_fast_store, default_hardware} :
        Constructed(t, h, 0, << >>)

SpecWb == InitWb /\ [][Next]_vars

\* S4 of the test suite: CALL over two instructions, then RET
S4 == << Line("call", 2, 0, 0), Line("addi", 2, 0, 9), Line("addi", 3, 0, 9),
         Line("addi", 4, 0, 7), Line("ret", 0, 0, 0) >>

\* calls, returns and the instructions they skip or reach
CallPool ==
    { Line("call", 2, 0, 0), Line("call", 0, 0, 0), Line("addi", 4, 0, 7),
      Line("ret", 0, 0, 0) }

\* a program whose only instruction is RET, and a RET reached with R1 = 0
SRet == << Line("ret", 0, 0, 0) >>
SRetZero == << Line("addi", 1, 0, 0), Line("ret", 0, 0, 0) >>

InitCall ==
    \E t \in {S4, SRet, SRetZero} \cup Programs(CallPool, MaxProgLen) :
        Constructed(t, default_hardware, 0, << >>)

\* run() keeps calling next_cycle until its loop test fails
FairCall == InitCall /\ [][Next]_vars /\ WF_stage(RunStep)

(***************************************************************************)
(* Vocabulary of the properties.                                           *)
(***************************************************************************)
\* the state between two cycles (next_cycle has returned, or never ran)
EndOfCycle == stage \in {"issue", "done"}

AllPositions == Positions(reservation_stations, 0, NUM_RES_STATIONS_Types - 1)
Station(pos) == reservation_stations[pos[1]][pos[2]]
StationPositions == {AllPositions[k] : k \in 1 .. Len(AllPositions)}
BusyPositions == {pos \in StationPositions : Station(pos).busy}

Written(i) == program[i].write_back > 0
IsControl(l) == l.mn \in {"beq", "call", "ret"}
NoControl == \A k \in 1 .. Len(text) : ~IsControl(text[k])
RunOf(t) == text = t /\ hw = default_hardware /\ initial_PC = 0 /\ initial_memory = << >>

(***************************************************************************)
(* Execution of the program one instruction at a time, in program order,   *)
(* for programs without BEQ/JUMP: the architectural state before           *)
(* instruction i, from the registers and memory of a fresh engine.         *)
(***************************************************************************)
InOrderStep(arch, inst) ==
    LET vj == arch.registers[inst.rs]
        vk == arch.registers[inst.rt]
        operands == [vj |-> vj, vk |-> vk, a |-> inst.imm, op |-> inst.op,
                     inst_index |-> inst.index, result |-> 0]
    IN  CASE inst.category = LOAD ->
               IF inst.rd = 0 THEN arch
               ELSE [arch EXCEPT !.registers[inst.rd] = MemRead(arch.memory, vj + inst.imm)]
          [] inst.category = STORE ->
               [arch EXCEPT !.memory = MemWrite(@, vj + inst.imm, vk)]
          [] OTHER ->
               IF inst.rd = 0 THEN arch
               ELSE [arch EXCEPT !.registers[inst.rd] = exec_result(inst.category, operands)]

RECURSIVE InOrderBefore(_)
InOrderBefore(i) ==
    IF i <= initial_PC
    THEN [registers |-> [r \in Regs |-> r], memory |-> initial_memory]
    ELSE InOrderStep(InOrderBefore(i - 1), program[i - 1])

(***************************************************************************)
(* C1.  At the end of every cycle, every instruction that has been written *)
(* back (write_back > 0) has 0 < issue <= exec_start <= exec_end <         *)
(* write_back.                                                             *)
(***************************************************************************)
C1_TimestampsOrdered ==
    EndOfCycle =>
        \A i \in DOMAIN program :
            Written(i) =>
                /\ 0 < program[i].issue
                /\ program[i].issue <= program[i].exec_start
                /\ program[i].exec_start <= program[i].exec_end
                /\ program[i].exec_end < program[i].write_back

(***************************************************************************)
(* C2.  In a program without BEQ/JUMP, the value a written-back LOAD       *)
(* delivers (the result of its station) is the word that in-order          *)
(* execution finds at its effective address: the value of the latest       *)
(* STORE before it in program order to that address, or the initial word.  *)
(***************************************************************************)
C2_LoadSeesLatestStore ==
    (EndOfCycle /\ NoControl) =>
        \A j \in 1 .. Len(reservation_stations[LOAD]) :
            LET st   == reservation_stations[LOAD][j]
                i    == st.inst_index
                arch == InOrderBefore(i)
            IN  (~st.busy /\ i >= 0 /\ Written(i)) =>
                    st.result = MemRead(arch.memory, arch.registers[program[i].rs] + program[i].imm)

UnresolvedMem ==
    {pos \in BusyPositions : pos[1] \in {LOAD, STORE} /\ Station(pos).rem_cycles_addr > 0}

C4_QueueIsUnresolvedMem ==
    EndOfCycle =>
        /\ {load_store_queue[k] : k \in 1 .. Len(load_store_queue)}
              = {Station(pos).inst_index : pos \in UnresolvedMem}
        /\ Len(load_store_queue) = Cardinality(UnresolvedMem)
        /\ \A k, m \in 1 .. Len(load_store_queue) :
              k < m => \E p, q \in UnresolvedMem :
                          /\ Station(p).inst_index = load_store_queue[k]
                          /\ Station(q).inst_index = load_store_queue[m]
                          /\ issued_at[Station(p).id] < issued_at[Station(q).id]

(***************************************************************************)
(* C5.  At the end of every cycle every nonzero entry of the live rename   *)
(* table is the id of a busy station whose instruction has that register   *)
(* as destination.                                                         *)
(***************************************************************************)
C5_RenameNamesBusyProducer ==
    EndOfCycle =>
        \A r \in Regs :
            register_status[r] # 0 =>
                \E pos \in BusyPositions :
                    /\ Station(pos).id = register_status[r]
                    /\ program[PyIdx(Station(pos).inst_index, Cardinality(DOMAIN program))].rd = r

(***************************************************************************)
(* C6.  Programs without BEQ, CALL/RET, LOAD/STORE on a configuration with *)
(* a station for every category and positive latencies: the run            *)
(* terminates (pc >= program length, no station busy), and then the        *)
(* written-back counter is the number of instructions from the initial PC  *)
(* to the end of the program (the program length when started at PC 0).    *)
(***************************************************************************)
Remaining == IF initial_PC < Len(text) THEN Len(text) - initial_PC ELSE 0

C6_TerminatesAllWritten ==
    /\ <>(stage = "done")
    /\ [](stage = "done" =>
            /\ pc >= Len(text)
            /\ BusyPositions = {}
            /\ num_written_insts = Remaining)

\* C6 as claimed: at termination the counter equals the program length
C6_Original == stage = "done" => num_written_insts = Len(text)

C6_Witness ==
    /\ stage = "done"
    /\ Len(text) > initial_PC + 1
    /\ num_written_insts = Remaining

(***************************************************************************)
(* C7.  S1 on the default configuration from PC 0 terminates (by the end   *)
(* of cycle 10) with R1 = 5, R2 = 10, R3 = 15, written = 3, beq = 0 and    *)
(* mispredictions = 0.                                                     *)
(***************************************************************************)
C7_S1Results ==
    RunOf(S1) =>
        /\ cycle >= 11 => stage = "done"
        /\ stage = "done" =>
              /\ registers[1] = 5 /\ registers[2] = 10 /\ registers[3] = 15
              /\ num_written_insts = 3 /\ num_beq = 0 /\ num_mispredictions = 0

C7_Witness == RunOf(S1) /\ stage = "done" /\ registers[3] = 15

(***************************************************************************)
(* C8.  S1 on the default configuration (ADD exec = 2, cycle counter       *)
(* starting at 1): the three ADDI record write_back 4, 7 and 10.           *)
(***************************************************************************)
WriteBacks == [i \in 1 .. Len(text) |-> program[i - 1].write_back]

C8_S1WriteBacks == (RunOf(S1) /\ stage = "done") => WriteBacks = <<4, 7, 10>>

\* C8 as claimed: write_back 5, 8 and 11
C8_Original == (RunOf(S1) /\ stage = "done") => WriteBacks = <<5, 8, 11>>

C8_Witness == RunOf(S1) /\ stage = "done" /\ \A i \in DOMAIN program : Written(i)

(***************************************************************************)
(* C9.  S2 (eight independent ADDI, 4 ADD stations, exec = 2): the         *)
(* instructions issue in the consecutive cycles 1..8, Issue always finds a *)
(* free ADD station (no structural stall), and all eight write back.       *)
(***************************************************************************)
Issues == [i \in 1 .. Len(text) |-> program[i - 1].issue]
AddStationFree == \E j \in 1 .. Len(reservation_stations[ADDITION]) :
                      ~reservation_stations[ADDITION][j].busy

C9_S2NoStall ==
    RunOf(S2) =>
        /\ (stage = "issue" /\ pc < Len(text)) => AddStationFree
        /\ stage = "done" => Issues = <<1, 2, 3, 4, 5, 6, 7, 8>> /\ num_written_insts = 8

\* C9 as claimed: issues in cycles 1..4, then a cycle in which the fifth
\* instruction finds all four ADD stations busy, and written = 8
C9_Original ==
    (RunOf(S2) /\ stage = "done") =>
        /\ SubSeq(Issues, 1, 4) = <<1, 2, 3, 4>>
        /\ Issues[5] > 5
        /\ num_written_insts = 8

C9_Witness == RunOf(S2) /\ stage = "done" /\ num_written_insts = 8

(***************************************************************************)
(* C10.  S3 as written is refused by the decoder (the immediates 99 and 77 *)
(* are outside [-16, 15]): no engine is constructed.  With immediates in   *)
(* range (9 and 7) the run of a freshly constructed engine terminates with *)
(* R2 = 2 and R3 = 3 (the values registers are constructed with), R4 = 5,  *)
(* mispredictions = 1 and beq = 1.                                         *)
(***************************************************************************)
C10_S3Results ==
    /\ text = S3 => stage = "exit"
    /\ RunOf(S3InRange) =>
          /\ cycle >= 11 => stage = "done"
          /\ stage = "done" =>
                /\ registers[2] = 2 /\ registers[3] = 3 /\ registers[4] = 5
                /\ num_mispredictions = 1 /\ num_beq = 1

\* C10 as claimed: the run of S3 terminates with R2 = 0, R3 = 0, R4 = 5
C10_Original ==
    RunOf(S3) =>
        /\ stage # "exit"
        /\ stage = "done" =>
              /\ registers[2] = 0 /\ registers[3] = 0 /\ registers[4] = 5
              /\ num_mispredictions = 1 /\ num_beq = 1

C10_Witness == RunOf(S3InRange) /\ stage = "done" /\ num_mispredictions = 1

(***************************************************************************)
(* C11.  At the end of the cycle in which a CALL at program index i writes *)
(* back, register R1 holds i + 1, whether or not the CALL was issued while *)
(* older branches were pending.                                            *)
(***************************************************************************)
IsCall(i) == program[i].category = JUMP /\ program[i].op = CALL
WroteBackThisCycle(i) == Written(i) /\ program[i].write_back = cycle - 1

C11_CallLeavesReturnAddress ==
    EndOfCycle =>
        \A i \in DOMAIN program :
            (IsCall(i) /\ WroteBackThisCycle(i)) => registers[1] = i + 1

(***************************************************************************)
(* C13.  Structural hazard: when Issue runs with pc < program_length and   *)
(* every station of the category of program[pc] busy, Issue changes        *)
(* nothing: PC, the issue timestamps, the stations, the rename table, the  *)
(* load/store queue and the snapshots are as before.                       *)
(***************************************************************************)
StructuralHazard ==
    /\ pc < Len(text)
    /\ InRange(pc, Len(text))
    /\ \A j \in 1 .. Len(reservation_stations[Prog(State, pc).category]) :
           reservation_stations[Prog(State, pc).category][j].busy

C13_StallChangesNothing ==
    [][(stage = "issue" /\ StructuralHazard) =>
          /\ pc' = pc
          /\ program' = program
          /\ reservation_stations' = reservation_stations
          /\ register_status' = register_status
          /\ load_store_queue' = load_store_queue
          /\ system_status_queue' = system_status_queue
          /\ registers' = registers
          /\ memory' = memory]_vars

\* Issue has just run against a full bank: no station was claimed this cycle
C13_Witness ==
    /\ stage = "execute"
    /\ StructuralHazard
    /\ \A id \in DOMAIN issued_at : issued_at[id] # cycle

(***************************************************************************)
(* C14.  Register 0 is never modified: in every reachable state            *)
(* registers[0] = 0, the live rename entry of register 0 is 0, and every   *)
(* snapshot's rename entry of register 0 is 0, also for instructions whose *)
(* destination is R0.                                                      *)
(***************************************************************************)
C14_RegisterZero ==
    /\ registers[0] = 0
    /\ register_status[0] = 0
    /\ \A k \in 1 .. Len(system_status_queue) :
           system_status_queue[k].register_status[0] = 0

\* an arithmetic instruction with destination R0 and a nonzero result retired
C14_Witness ==
    \E i \in DOMAIN program :
        /\ program[i].category = ADDITION /\ program[i].op = ADDI
        /\ program[i].rd = 0 /\ program[i].imm # 0 /\ program[i].rs = 0
        /\ Written(i)

(***************************************************************************)
(* C20.  At the end of every cycle the speculation stack holds exactly one *)
(* snapshot per busy BEQ/JUMP station, in strictly increasing issue order, *)
(* each snapshot's issue cycle being the issue timestamp of its control    *)
(* instruction.                                                            *)
(***************************************************************************)
BusyControl == {pos \in BusyPositions : pos[1] \in {BEQ, JUMP}}
SnapshotIssues == [k \in 1 .. Len(system_status_queue) |-> system_status_queue[k].issue]

C20_OneSnapshotPerControl ==
    EndOfCycle =>
        /\ \A k \in 1 .. Len(SnapshotIssues) - 1 : SnapshotIssues[k] < SnapshotIssues[k + 1]
        /\ {SnapshotIssues[k] : k \in 1 .. Len(SnapshotIssues)}
              = {Prog(State, Station(pos).inst_index).issue : pos \in BusyControl}
        /\ Len(SnapshotIssues) = Cardinality(BusyControl)

(***************************************************************************)
(* C18.  Stepping is total: no stage of a cycle raises an error, and       *)
(* whenever Issue is about to run (pc < program_length) it reads           *)
(* program[pc] with 0 <= pc.                                               *)
(***************************************************************************)
C18_SteppingTotal ==
    /\ stage # "error"
    /\ (stage = "issue" /\ pc < Len(text)) => pc >= 0

(***************************************************************************)
(* C17.  A LOAD or STORE whose address resolution has completed with an    *)
(* effective address outside [0, 65535] has stopped the run with a fatal   *)
(* error: no state of a run that goes on holds a busy memory station with  *)
(* a resolved address out of range, and no word is stored for it.          *)
(***************************************************************************)
C17_BadAddressIsFatal ==
    stage # "error" =>
        \A pos \in BusyPositions :
            (pos[1] \in {LOAD, STORE} /\ Station(pos).rem_cycles_addr = 0)
                => Station(pos).a \in 0 .. MEMORY_SIZE - 1

(***************************************************************************)
(* C19.  Each of the four timestamps of an instruction is set exactly      *)
(* once: a timestamp that holds a nonzero value keeps that value in every  *)
(* later step.                                                             *)
(***************************************************************************)
C19_TimestampsSetOnce ==
    [][\A i \in DOMAIN program :
          /\ program[i].issue # 0      => program'[i].issue = program[i].issue
          /\ program[i].exec_start # 0 => program'[i].exec_start = program[i].exec_start
          /\ program[i].exec_end # 0   => program'[i].exec_end = program[i].exec_end
          /\ program[i].write_back # 0 => program'[i].write_back = program[i].write_back]_vars

(***************************************************************************)
(* C15.  Registers and memory are 16-bit words: in every reachable state   *)
(* every register value and every memory word lies in [0, 65535].          *)
(***************************************************************************)
C15_SixteenBitWords ==
    /\ \A r \in DOMAIN registers : registers[r] \in 0 .. MASK16
    /\ \A a \in DOMAIN memory : memory[a] \in 0 .. MASK16

(***************************************************************************)
(* C16.  A MUL station that has finished executing holds                   *)
(* result = (vj * vk) mod 2^16, and the write-back of a MUL station puts   *)
(* exactly that value into every register renamed to it.                   *)
(***************************************************************************)
MulStations == {pos \in StationPositions : pos[1] = MUL}

C16_MulLow16 ==
    [][\A pos \in MulStations :
          LET st  == reservation_stations[pos[1]][pos[2]]
              st2 == reservation_stations'[pos[1]][pos[2]]
          IN  /\ (st2.busy /\ st2.rem_cycles_exec = 0)
                     => st2.result = (st2.vj * st2.vk) % (MASK16 + 1)
              /\ (stage = "write" /\ st.id \in Retiring(State))
                     => \A r \in Regs :
                            register_status[r] = st.id
                                => registers'[r] = (st.vj * st.vk) % (MASK16 + 1)]_vars

\* S6 has run to its end: the last MUL multiplied 256 by 256 and R3 is 0
C16_Witness ==
    /\ text = S6 /\ stage = "done"
    /\ program[2].write_back > 0
    /\ registers[1] = 16 /\ registers[2] = 256 /\ registers[3] = 0
    /\ \E pos \in MulStations :
           /\ Station(pos).vj = 256 /\ Station(pos).vk = 256
           /\ Station(pos).result = 0

(***************************************************************************)
(* C12.  Scenario S4 never reaches the termination condition.  The CALL    *)
(* writes back in cycle 3 and moves the PC to the ADDI of R4, so R4 is 4   *)
(* through cycle 7 and 7 from then on (never 0); every write-back of the   *)
(* RET leaves the engine idle (no busy station, empty rename table, no     *)
(* snapshot) with pc = R1 = 1, from where the same four instructions run   *)
(* again: the RET writes back in cycles 8, 15, 22, ...                     *)
(***************************************************************************)
RetIndex == Len(S4) - 1

RetiringPositions == {pos \in StationPositions : Station(pos).id \in Retiring(State)}

C22_AtMostTwoRetire ==
    [][IF stage = "write" /\ stage' # "error"
       THEN /\ Cardinality({pos \in RetiringPositions : pos[1] = STORE}) <= 1
            /\ Cardinality({pos \in RetiringPositions : pos[1] # STORE}) <= 1
            /\ num_written_insts' = num_written_insts + Cardinality(RetiringPositions)
            /\ \A pos \in RetiringPositions :
                  /\ Station(pos).busy
                  /\ Station(pos).rem_cycles_exec = 0
                  /\ Prog(State, Station(pos).inst_index).exec_end < cycle
                  /\ pos[1] = STORE => Station(pos).qk = 0
                  /\ ~reservation_stations'[pos[1]][pos[2]].busy
            /\ \A pos \in StationPositions \ RetiringPositions :
                  (Station(pos).busy /\ ~reservation_stations'[pos[1]][pos[2]].busy)
                      => Redirecting(State) # NO_STATION
       ELSE num_written_insts' = num_written_insts]_vars

\* a STORE and an instruction of another category have written back in the
\* same cycle
C22_Witness ==
    /\ EndOfCycle
    /\ \E i, j \in DOMAIN program :
          /\ WroteBackThisCycle(i) /\ WroteBackThisCycle(j)
          /\ program[i].category = STORE /\ program[j].category # STORE
    /\ num_written_insts >= 2

(***************************************************************************)
(* C23.  In a write-back stage in which some non-STORE station is eligible *)
(* (busy, rem_cycles_exec = 0, exec_end < cycle), the eligible non-STORE   *)
(* station with the smallest issue cycle retires, and no other non-STORE   *)
(* station does, whichever STORE stations are eligible.                    *)
(***************************************************************************)
IssueOf(pos) == Prog(State, Station(pos).inst_index).issue

ReadyToWrite(pos) ==
    /\ Station(pos).busy
    /\ Station(pos).rem_cycles_exec = 0
    /\ Prog(State, Station(pos).inst_index).exec_end < cycle

EligibleOthers == {pos \in StationPositions : pos[1] # STORE /\ ReadyToWrite(pos)}
EligibleStores ==
    {pos \in StationPositions : pos[1] = STORE /\ ReadyToWrite(pos) /\ Station(pos).qk = 0}

C23_OldestOtherRetires ==
    [][(stage = "write" /\ EligibleOthers # {}) =>
          \E pos \in EligibleOthers :
              /\ \A q \in EligibleOthers : IssueOf(pos) <= IssueOf(q)
              /\ Select(State).write_station_id = Station(pos).id
              /\ ~reservation_stations'[pos[1]][pos[2]].busy
              /\ program'[ProgIdx(State, Station(pos).inst_index)].write_back = cycle]_vars

(***************************************************************************)
(* C24.  In a write-back stage in which some STORE station is eligible     *)
(* (busy, rem_cycles_exec = 0, exec_end < cycle, qk = 0), the eligible     *)
(* STORE with the smallest issue cycle retires in that stage, whichever    *)
(* non-STORE stations are eligible.                                        *)
(***************************************************************************)
C24_OldestStoreRetires ==
    [][(stage = "write" /\ EligibleStores # {}) =>
          \E pos \in EligibleStores :
              /\ \A q \in EligibleStores : IssueOf(pos) <= IssueOf(q)
              /\ Select(State).write_store_station_id = Station(pos).id
              /\ ~reservation_stations'[pos[1]][pos[2]].busy
              /\ program'[ProgIdx(State, Station(pos).inst_index)].write_back = cycle]_vars

(***************************************************************************)
(* C25.  Speculation gate: while a BEQ or JUMP station is busy, a station  *)
(* issued after the oldest busy control station makes no progress: no step *)
(* changes its rem_cycles_addr or rem_cycles_exec, Execute does not record *)
(* an exec_start for its instruction, and it does not write back (it stays *)
(* busy unless a redirecting control instruction flushes it).              *)
(***************************************************************************)
OldestControlIssue ==
    CHOOSE c \in {issued_at[Station(pos).id] : pos \in BusyControl} :
        \A pos \in BusyControl : c <= issued_at[Station(pos).id]

Speculative ==
    IF BusyControl = {} THEN {}
    ELSE {pos \in BusyPositions : issued_at[Station(pos).id] > OldestControlIssue}

C26_FlushYoungerOnly ==
    [][(stage = "write" /\ Redirecting(State) # NO_STATION) =>
          /\ system_status_queue' = << >>
          /\ \A pos \in BusyPositions :
                LET st  == Station(pos)
                    st2 == reservation_stations'[pos[1]][pos[2]]
                    w   == Redirecting(State)
                IN  /\ st.id = w => ~st2.busy
                    /\ issued_at[st.id] > issued_at[w] =>
                           /\ ~st2.busy
                           /\ \A r \in Regs : register_status'[r] # st.id
                    /\ issued_at[st.id] < issued_at[w] => st2 = st]_vars

\* a redirecting control instruction has just retired: a station issued before
\* it is still busy, and an instruction issued after it has been squashed
C26_Witness ==
    /\ EndOfCycle
    /\ \E i \in DOMAIN program :
          /\ IsControl(i) /\ WroteBackThisCycle(i)
          /\ \E pos \in BusyPositions : issued_at[Station(pos).id] < program[i].issue
          /\ \E c \in squashed : c > program[i].issue
    /\ system_status_queue = << >>

(***************************************************************************)
(* C27.  When a taken BEQ or a JUMP W retires, the load/store queue loses  *)
(* every entry whose instruction was issued after W, wherever it sits, and *)
(* keeps the entries issued before W, in order.                            *)
(***************************************************************************)
C27_QueueFlushedBehindW ==
    [][(stage = "write" /\ Redirecting(State) # NO_STATION) =>
          LET w == Redirecting(State)
              IssuedBeforeW(idx) == Prog(State, idx).issue <= issued_at[w]
          IN  load_store_queue' = SelectSeq(load_store_queue, IssuedBeforeW)]_vars

(***************************************************************************)
(* C28.  STOREs update memory in program order: in a program without       *)
(* BEQ/JUMP (here also without LOAD, so that every stored value is a       *)
(* register value), started at PC 0, memory after termination is the       *)
(* memory the program leaves when its instructions are applied one after   *)
(* the other, so each word holds the value of the program-order-last STORE *)
(* to its address.                                                         *)
(***************************************************************************)
\* registers and memory after the lines k .. Len(t) of t applied in program order
RECURSIVE InOrderMemory(_, _, _, _)
InOrderMemory(t, k, regs, mem) ==
    IF k > Len(t) THEN mem
    ELSE LET l   == t[k]
             set(v) == [regs EXCEPT ![l.x] = IF l.x = 0 THEN 0 ELSE v]
         IN  CASE l.mn = "addi"  -> InOrderMemory(t, k + 1, set(regs[l.y] + l.z), mem)
               [] l.mn = "add"   -> InOrderMemory(t, k + 1, set(regs[l.y] + regs[l.z]), mem)
               [] l.mn = "mul"   -> InOrderMemory(t, k + 1,
                                        set((regs[l.y] * regs[l.z]) % (MASK16 + 1)), mem)
               [] l.mn = "store" -> InOrderMemory(t, k + 1, regs,
                                        MemWrite(mem, regs[l.z] + l.y, regs[l.x]))
               [] OTHER          -> InOrderMemory(t, k + 1, regs, mem)

NoLoad == \A k \in 1 .. Len(text) : text[k].mn # "load"

C28_StoresInProgramOrder ==
    (stage = "done" /\ NoControl /\ NoLoad /\ initial_PC = 0) =>
        memory = InOrderMemory(text, 1, [i \in Regs |-> i], initial_memory)

(***************************************************************************)
(* C29.  Memory instructions resolve their addresses in issue order: in    *)
(* an execute stage a LOAD/STORE station's rem_cycles_addr changes only if *)
(* its instruction index is the head of the load/store queue and qj = 0;   *)
(* at most one station completes address resolution; and the queue loses   *)
(* its head exactly when a station completes, and is unchanged otherwise.  *)
(***************************************************************************)
MemStations == {pos \in BusyPositions : pos[1] \in {LOAD, STORE}}

Resolving ==
    {pos \in MemStations :
        reservation_stations'[pos[1]][pos[2]].rem_cycles_addr # Station(pos).rem_cycles_addr}

Resolved ==
    {pos \in Resolving : reservation_stations'[pos[1]][pos[2]].rem_cycles_addr = 0}

C29_AddressesInIssueOrder ==
    [][(stage = "execute" /\ stage' # "error") =>
          /\ \A pos \in Resolving :
                /\ load_store_queue # << >>
                /\ load_store_queue[1] = Station(pos).inst_index
                /\ Station(pos).qj = 0
          /\ Cardinality(Resolved) <= 1
          /\ load_store_queue' = IF Resolved # {} THEN Tail(load_store_queue)
                                 ELSE load_store_queue]_vars

(***************************************************************************)
(* C30.  When a BEQ retires not taken, the write-back stage copies the     *)
(* front snapshot's rename table into the live rename table, removes that  *)
(* one snapshot from the front of the speculation stack, adds 1 to the     *)
(* branch counter, and leaves the PC, the misprediction counter and every  *)
(* station but the retiring one unchanged.                                 *)
(***************************************************************************)
NotTakenRetiring ==
    {pos \in RetiringPositions : pos[1] = BEQ /\ Station(pos).result # 1}

C30_NotTakenRestoresSnapshot ==
    [][(stage = "write" /\ NotTakenRetiring # {}) =>
          /\ system_status_queue # << >>
          /\ register_status' = system_status_queue[1].register_status
          /\ system_status_queue' = Tail(system_status_queue)
          /\ num_beq' = num_beq + 1
          /\ pc' = pc
          /\ num_mispredictions' = num_mispredictions
          /\ \A pos \in StationPositions :
                IF pos \in NotTakenRetiring
                THEN reservation_stations'[pos[1]][pos[2]] = [Station(pos) EXCEPT !.busy = FALSE]
                ELSE reservation_stations'[pos[1]][pos[2]] = Station(pos)]_vars

\* a BEQ has just retired not taken, and the copy has removed the rename of a
\* register by an instruction issued after the BEQ, which is still busy
C30_Witness ==
    /\ EndOfCycle
    /\ num_mispredictions = 0 /\ num_beq >= 1
    /\ \E i \in DOMAIN program :
          /\ program[i].category = BEQ /\ WroteBackThisCycle(i)
          /\ \E pos \in BusyPositions :
                /\ issued_at[Station(pos).id] > program[i].issue
                /\ pos[1] = MUL
                /\ \A r \in Regs : register_status[r] # Station(pos).id

(***************************************************************************)
(* C31.  An instruction with rd # 0 that issues while the speculation      *)
(* stack is non-empty writes its station id into the rename table of the   *)
(* newest snapshot only: the live rename table and the older snapshots are *)
(* unchanged.  Every issue takes its operand tags from the live table, so  *)
(* a later instruction of the same window that reads rd does not see the   *)
(* new producer.                                                           *)
(***************************************************************************)
C31_SpeculativeRename ==
    [][(stage = "issue" /\ IssuedStation(State) # 0 /\ system_status_queue # << >>) =>
          LET id   == IssuedStation(State)
              inst == Prog(State, pc)
              n    == Len(system_status_queue)
              pos  == station_id_to_index(State, id)
              new  == reservation_stations'[pos[1]][pos[2]]
          IN  /\ register_status' = register_status
              /\ new.busy /\ new.qj = register_status[inst.rs]
              /\ new.qk = register_status[inst.rt]
              /\ \A k \in 1 .. (n - 1) : system_status_queue'[k] = system_status_queue[k]
              /\ system_status_queue'[n].issue = system_status_queue[n].issue
              /\ system_status_queue'[n].register_status =
                     IF inst.rd = 0 THEN system_status_queue[n].register_status
                     ELSE [system_status_queue[n].register_status EXCEPT ![inst.rd] = id]]_vars

\* behind a pending BEQ a MUL that writes R1 and then a STORE of R1 have been
\* issued: the newest snapshot names the MUL for R1, the live table does not,
\* and the STORE holds no tag for its value
C31_Witness ==
    /\ stage = "execute" /\ system_status_queue # << >>
    /\ \E m \in BusyPositions, st \in BusyPositions :
          /\ m[1] = MUL /\ st[1] = STORE
          /\ Prog(State, Station(m).inst_index).rd = 1
          /\ Prog(State, Station(st).inst_index).rt = 1
          /\ system_status_queue[1].issue < issued_at[Station(m).id]
          /\ issued_at[Station(m).id] < issued_at[Station(st).id]
          /\ system_status_queue[Len(system_status_queue)].register_status[1] = Station(m).id
          /\ register_status[1] = 0
          /\ Station(st).qk = 0

(***************************************************************************)
(* C32.  At the end of the write-back stage in which a CALL retires,       *)
(* registers[1] holds the CALL station's result, inst_index + 1 (the       *)
(* return address), not its displacement a: the assignment of a is         *)
(* overwritten by the register update of the same stage, because R1 is     *)
(* still renamed to the CALL station.                                      *)
(***************************************************************************)
CallRetiring == {pos \in RetiringPositions : pos[1] = JUMP /\ Station(pos).op = CALL}

C32_CallLeavesResultInR1 ==
    [][(stage = "write" /\ CallRetiring # {}) =>
          \A pos \in CallRetiring :
              /\ register_status[1] = Station(pos).id
              /\ Station(pos).result = Station(pos).inst_index + 1
              /\ registers'[1] = Station(pos).inst_index + 1
              /\ register_status'[1] = 0]_vars

\* C32 as claimed: after the CALL's write-back R1 holds the displacement
C32_Original ==
    [][(stage = "write" /\ CallRetiring # {}) =>
          \A pos \in CallRetiring : registers'[1] = Station(pos).a]_vars

\* CALL 2 at index 0 has written back: R1 is 1, the return address, not 2
C32_Witness ==
    /\ EndOfCycle
    /\ \E i \in DOMAIN program :
          /\ IsCall(i) /\ WroteBackThisCycle(i)
          /\ program[i].imm = 2 /\ i = 0
          /\ registers[1] = 1

(***************************************************************************)
(* C33.  PC redirection at write-back: the write-back stage in which a     *)
(* control instruction at index i with immediate a retires leaves          *)
(* pc = i + 1 + a for a taken BEQ and for a CALL, and pc = vj for a RET;   *)
(* a taken BEQ adds exactly 1 to the branch counter and to the             *)
(* misprediction counter, a JUMP changes neither.                          *)
(***************************************************************************)
ControlRetiring == {pos \in RetiringPositions : pos[1] \in {BEQ, JUMP}}

C33_Redirection ==
    [][(stage = "write" /\ ControlRetiring # {}) =>
          \A pos \in ControlRetiring :
              LET st == Station(pos)
                  i  == Prog(State, st.inst_index).index
                  a  == Prog(State, st.inst_index).imm
              IN  /\ (pos[1] = BEQ /\ st.result = 1) =>
                        /\ pc' = i + 1 + a
                        /\ num_beq' = num_beq + 1
                        /\ num_mispredictions' = num_mispredictions + 1
                  /\ pos[1] = JUMP =>
                        /\ pc' = IF st.op = CALL THEN i + 1 + a ELSE st.vj
                        /\ num_beq' = num_beq
                        /\ num_mispredictions' = num_mispredictions]_vars

\* a backward BEQ has just retired taken, after a JUMP had redirected the PC
C33_Witness ==
    /\ EndOfCycle
    /\ num_mispredictions >= 1
    /\ \E i, j \in DOMAIN program :
          /\ program[i].category = BEQ /\ WroteBackThisCycle(i)
          /\ program[i].imm < 0 /\ pc = i + 1 + program[i].imm
          /\ program[j].category = JUMP /\ Written(j)

(***************************************************************************)
(* C34.  Stage ordering within a cycle.  Countdowns move in the execute    *)
(* stage only, and never in the cycle the station was issued; operand tags *)
(* are cleared in the write-back stage only, so an operand delivered in    *)
(* cycle t is first used in cycle t + 1: a station of a non-memory         *)
(* category decrements only with qj = 0 and qk = 0, a LOAD or STORE only   *)
(* with qj = 0 (the value operand qk of a STORE does not hold its          *)
(* countdowns back).  Registers change in the write-back stage only, and   *)
(* Issue copies the register value of the state it starts from.            *)
(***************************************************************************)
Decrementing ==
    {pos \in BusyPositions :
        \/ reservation_stations'[pos[1]][pos[2]].rem_cycles_exec # Station(pos).rem_cycles_exec
        \/ reservation_stations'[pos[1]][pos[2]].rem_cycles_addr # Station(pos).rem_cycles_addr}

TagsCleared ==
    {pos \in BusyPositions :
        \/ (Station(pos).qj # 0 /\ reservation_stations'[pos[1]][pos[2]].qj = 0)
        \/ (Station(pos).qk # 0 /\ reservation_stations'[pos[1]][pos[2]].qk = 0)}

C34_StageOrdering ==
    [][/\ stage # "execute" => Decrementing = {}
       /\ stage = "execute" =>
             \A pos \in Decrementing :
                 /\ issued_at[Station(pos).id] < cycle
                 /\ Station(pos).qj = 0
                 /\ pos[1] \notin {LOAD, STORE} => Station(pos).qk = 0
       /\ stage # "write" => (TagsCleared = {} /\ registers' = registers)
       /\ (stage = "issue" /\ IssuedStation(State) # 0) =>
             LET pos  == station_id_to_index(State, IssuedStation(State))
                 new  == reservation_stations'[pos[1]][pos[2]]
                 inst == Prog(State, pc)
             IN  /\ new.qj = 0 => new.vj = registers[inst.rs]
                 /\ new.qk = 0 => new.vk = registers[inst.rt]]_vars

\* C34 as claimed: a station that still waits for an operand, whichever it is,
\* decrements no countdown before the cycle after the operand's broadcast
C34_Original ==
    [][stage = "execute" =>
          \A pos \in Decrementing :
              /\ issued_at[Station(pos).id] < cycle
              /\ Station(pos).qj = 0 /\ Station(pos).qk = 0]_vars

\* a BEQ whose operand the MUL broadcast in the previous cycle has just
\* executed, in the first execute stage after the broadcast
C34_Witness ==
    /\ stage = "write"
    /\ \E pos \in BusyPositions, m \in DOMAIN program :
          /\ pos[1] = BEQ
          /\ Station(pos).rem_cycles_exec = 0
          /\ Prog(State, Station(pos).inst_index).exec_start = cycle - 1
          /\ Prog(State, Station(pos).inst_index).exec_end = cycle
          /\ program[m].category = MUL /\ program[m].write_back = cycle - 1
          /\ Prog(State, Station(pos).inst_index).rs = program[m].rd

(***************************************************************************)
(* C35.  A program of ADD, ADDI, MUL and NOR instructions only leaves, at  *)
(* termination, the register file that executing its instructions one at a *)
(* time in program order (from the initial PC, with the same result        *)
(* functions) leaves, on every station configuration.                      *)
(***************************************************************************)
ArithmeticOnly ==
    \A k \in 1 .. Len(text) : text[k].mn \in {"add", "addi", "mul", "nor"}

C35_ArithmeticInOrderResult ==
    (stage = "done" /\ ArithmeticOnly) =>
        registers = InOrderBefore(Len(text)).registers

\* a slow MUL and a younger ADDI write the same register: the ADDI retires
\* first, the MUL later, and the register keeps the ADDI's value
C35_Witness ==
    /\ stage = "done" /\ ArithmeticOnly
    /\ \E m \in DOMAIN program, y \in DOMAIN program :
          /\ y > m /\ m >= initial_PC
          /\ program[m].category = MUL /\ program[y].category = ADDITION
          /\ program[m].rd = program[y].rd /\ program[m].rd # 0
          /\ \A z \in DOMAIN program : z > y => program[z].rd # program[y].rd
          /\ program[y].write_back < program[m].write_back
          /\ registers[program[y].rd] # InOrderBefore(m + 1).registers[program[y].rd]
          /\ registers = InOrderBefore(Len(text)).registers

(***************************************************************************)
(* C36.  A program of arithmetic instructions and BEQs that are all        *)
(* resolved not taken leaves, at termination, the register file of the     *)
(* in-order execution of its instructions (a BEQ that is not taken changes *)
(* no register): a consumer issued under a pending branch obtains the      *)
(* value of the producer issued before it.                                 *)
(***************************************************************************)
ArithmeticAndBranches ==
    \A k \in 1 .. Len(text) : text[k].mn \in {"add", "addi", "mul", "nor", "beq"}

C36_NotTakenInOrderResult ==
    (stage = "done" /\ ArithmeticAndBranches /\ num_mispredictions = 0) =>
        registers = InOrderBefore(Len(text)).registers

(***************************************************************************)
(* C37.  A loop-free program (no CALL, no RET, no BEQ with a negative      *)
(* displacement) runs to completion: the engine never reaches a state in   *)
(* which the whole program has been issued and every busy station waits    *)
(* for a tag that no busy station will broadcast, or behind a head of the  *)
(* load/store queue that belongs to no busy station.  No station can       *)
(* retire from such a state, so the run never ends.                        *)
(***************************************************************************)
LoopFree ==
    \A k \in 1 .. Len(text) :
        /\ text[k].mn \notin {"call", "ret"}
        /\ text[k].mn = "beq" => text[k].z >= 0

WillBroadcast(tag) == \E pos \in BusyPositions : Station(pos).id = tag

Orphaned(pos) ==
    \/ Station(pos).qj # 0 /\ ~WillBroadcast(Station(pos).qj)
    \/ Station(pos).qk # 0 /\ ~WillBroadcast(Station(pos).qk)
    \/ /\ pos[1] \in {LOAD, STORE}
       /\ Station(pos).rem_cycles_addr # 0
       /\ load_store_queue # << >>
       /\ \A p \in BusyPositions :
             p[1] \in {LOAD, STORE} => Station(p).inst_index # load_store_queue[1]

Wedged ==
    /\ pc >= Len(text)
    /\ BusyPositions # {}
    /\ \A pos \in BusyPositions : Orphaned(pos)

C37_LoopFreeNeverWedged == LoopFree => ~Wedged

(***************************************************************************)
(* C38.  In every reachable state each program index is held by at most    *)
(* one busy station, so the timestamps of program[idx] describe the one    *)
(* instance of that instruction in flight.                                 *)
(***************************************************************************)
C38_OneStationPerIndex ==
    \A p \in BusyPositions, q \in BusyPositions :
        Station(p).inst_index = Station(q).inst_index => p = q
=============================================================================
